---- MODULE Spec2Model ----
(***************************************************************************)
(* Model of src/main.py: the Oracle -> MongoDB migration pipeline          *)
(* (processa_arquivos_sql), its value converter and query runner, and the  *)
(* three scheduling wrappers selected on the command line.                 *)
(*                                                                         *)
(* Text is a sequence of one-character strings, so that parsing            *)
(* (split / int) and formatting (strftime) are computed, not assumed.      *)
(* Time is the wall clock in whole seconds since midnight of day 0.        *)
(***************************************************************************)
EXTENDS Integers, Sequences, FiniteSets, TLC

\* ------------------------------------------------------------------ bounds
MaxRows      == 2    \* rows a query returns at most
MaxRuns      == 2    \* pipeline invocations followed per process
MaxOvershoot == 1    \* seconds time.sleep may return late

\* ------------------------------------------------------- program constants
SegundosDia    == 86400   \* 24 * 3600, timedelta(days=1)
SegundosHora   == 3600
SegundosMinuto == 60

\* -------------------------------------------------------------------- text
DigitChars == <<"0", "1", "2", "3", "4", "5", "6", "7", "8", "9">>

Digit(n) == DigitChars[n + 1]

IsDigit(c) == \E i \in 1..10 : DigitChars[i] = c

DigitVal(c) == (CHOOSE i \in 1..10 : DigitChars[i] = c) - 1

\* str.split(":")
RECURSIVE Split(_)
Split(s) ==
    IF \A i \in 1..Len(s) : s[i] # ":"
    THEN <<s>>
    ELSE LET k == CHOOSE i \in 1..Len(s) :
                      s[i] = ":" /\ \A j \in 1..(i - 1) : s[j] # ":"
         IN  <<SubSeq(s, 1, k - 1)>> \o Split(SubSeq(s, k + 1, Len(s)))

\* int(text) succeeds on a non-empty run of decimal digits
IntOk(p) == Len(p) > 0 /\ \A i \in 1..Len(p) : IsDigit(p[i])

RECURSIVE IntOf(_)
IntOf(p) ==
    IF p = <<>> THEN 0
    ELSE IntOf(SubSeq(p, 1, Len(p) - 1)) * 10 + DigitVal(p[Len(p)])

\* "%d", "%m", "%H", "%M", "%S": two digits, zero padded
Pad2(n) == <<Digit((n \div 10) % 10), Digit(n % 10)>>

RECURSIVE Decimal(_)
Decimal(n) == IF n < 10 THEN <<Digit(n)>> ELSE Decimal(n \div 10) \o <<Digit(n % 10)>>

\* "%Y" is delegated to the C library: four digits, zero padded, on
\* platforms that pad; on glibc the plain decimal year (no leading zeros).
FormatYear(y, pads) ==
    IF pads
    THEN <<Digit((y \div 1000) % 10), Digit((y \div 100) % 10),
           Digit((y \div 10) % 10), Digit(y % 10)>>
    ELSE Decimal(y)

\* ------------------------------------------------------------------ values
\* A source value: kind "prim" (number, string, null ...; txt is its
\* content), "lob" (a cx_Oracle.LOB handle; txt is what read() returns, ok
\* says whether read() succeeds) or "datetime" (dt = <<day, month, year,
\* hour, minute, second>>).
Prim(t)       == [kind |-> "prim", txt |-> t, dt |-> <<>>, ok |-> TRUE]
Lob(t, ok)    == [kind |-> "lob", txt |-> t, dt |-> <<>>, ok |-> ok]
DateTime(d, mo, y, h, mi, s) ==
    [kind |-> "datetime", txt |-> <<>>, dt |-> <<d, mo, y, h, mi, s>>, ok |-> TRUE]

\* valor.strftime("%d-%m-%Y %H:%M:%S")
Strftime(dt, pads) ==
    Pad2(dt[1]) \o <<"-">> \o Pad2(dt[2]) \o <<"-">> \o FormatYear(dt[3], pads)
    \o <<" ">> \o Pad2(dt[4]) \o <<":">> \o Pad2(dt[5]) \o <<":">> \o Pad2(dt[6])

\* the body of the inner loop of converte_lob_para_string_bytes
ConverteValor(valor, pads) ==
    IF valor.kind = "lob" THEN Prim(valor.txt)
    ELSE IF valor.kind = "datetime" THEN Prim(Strftime(valor.dt, pads))
    ELSE valor

\* valor.read() raises for some LOB of the data
ConverteFalha(dados) ==
    \E l \in 1..Len(dados) : \E i \in 1..Len(dados[l]) :
        dados[l][i].kind = "lob" /\ ~dados[l][i].ok

\* line 48 indented one level less: only the last row is appended
converte_LastRowOnly(dados, pads) ==
    IF dados = <<>> THEN <<>>
    ELSE <<[i \in 1..Len(dados[Len(dados)]) |->
               ConverteValor(dados[Len(dados)][i], pads)]>>

converte_lob_para_string_bytes(dados, pads) ==
    [l \in 1..Len(dados) |->
        [i \in 1..Len(dados[l]) |-> ConverteValor(dados[l][i], pads)]]

\* ------------------------------------------------------------- source data
Row1 == <<Prim(<<"x">>), Lob(<<"a", "b">>, TRUE), DateTime(2, 1, 2024, 3, 4, 5)>>
Row2 == <<DateTime(31, 12, 999, 23, 59, 59), Prim(<<>>), Lob(<<>>, TRUE)>>
Row3 == <<Prim(<<"7">>), Lob(<<"c">>, FALSE), Prim(<<"y">>)>>

SourceRows == {Row1, Row2, Row3}

RECURSIVE SeqsUpTo(_, _)
SeqsUpTo(S, n) ==
    IF n = 0 THEN {<<>>}
    ELSE LET shorter == SeqsUpTo(S, n - 1)
         IN  shorter \cup {Append(q, x) : q \in {r \in shorter : Len(r) = n - 1}, x \in S}

Tables == SeqsUpTo(SourceRows, MaxRows)

\* the definition files of the directory: stem of each *.sql file
Defs == {"customers", "empty"}

\* cursor.description of the second execution: the column names
Descriptions == {<<"A", "B", "C">>, <<"A", "B", "A">>, <<"A", "B">>}


\* ------------------------------------------------------------ command line
TempoNone    == [given |-> FALSE, text |-> <<>>]
Tempo(t)     == [given |-> TRUE, text |-> t]

TempoTexts ==
    { <<"0", "2", ":", "3", "0">>,
      <<"0", "0", ":", "0", "0">>,
      <<"2", "5", ":", "0", "0">>,
      <<"7">> }

Tempos == {TempoNone} \cup {Tempo(t) : t \in TempoTexts}

Modos == {"manual", "diario", "por_intervalo"}

\* truth value of args.tempo: None and "" are false
Truthy(tempo) == tempo.given /\ tempo.text # <<>>

\* wall-clock readings at process start
Nows == {8999, 9000, 9001}

\* ------------------------------------------------------------------- state
VARIABLES
    args,                      \* parsed command line: modo, tempo
    clock,                     \* wall clock, seconds
    pc,                        \* position of the module-level code / wrapper
    target_time, delay,        \* modo_diario locals
    intervalo_segundos,        \* modo_por_intervalo local
    sleep_arg,                 \* argument of the latest time.sleep call
    runs,                      \* calls of processa_arquivos_sql so far
    ppc,                       \* position inside processa_arquivos_sql
    conexao_oracle,            \* "unset", "open", "closed" (this call)
    mongo_client,              \* "unset", "open", "closed" (this call)
    oracle_conns, mongo_conns, \* connections currently open in the process
    cursors,                   \* cursors currently open
    source,                    \* source database: query -> table
    arquivos_sql, idx,         \* list of the glob and position of the loop
    consulta_sql,              \* text of the current definition
    retorno,                   \* pending return value of executa_consulta_leitura
    excecao,                   \* exception that left processa_arquivos_sql, or ""
    dados_oracle,
    dados_oracle_convertidos,
    nomes_colunas,
    documentos_mongo,
    mongo_db,                  \* destination: collection name -> documents
    log,                       \* lines logged since the latest wrapper start
    mongo_inicio,              \* destination when the current call started
    execucoes,                 \* cursor.execute calls per definition, this call
    insercoes                  \* insert_many calls per collection: ok, erro

sched  == <<args, clock, pc, target_time, delay, intervalo_segundos, sleep_arg, runs>>
conns  == <<conexao_oracle, mongo_client, oracle_conns, mongo_conns, cursors>>
locals == <<arquivos_sql, idx, consulta_sql, retorno, excecao, dados_oracle,
            dados_oracle_convertidos, nomes_colunas, documentos_mongo>>
vars   == <<sched, ppc, conns, locals, source, mongo_db, log, mongo_inicio, execucoes,
            insercoes>>

\* None / a list of rows
None       == [none |-> TRUE, rows |-> <<>>]
Rows(rs)   == [none |-> FALSE, rows |-> rs]

LogLine(ev)              == [ev |-> ev, arq |-> "", linhas |-> 0, docs |-> 0]
LogArq(ev, arq)          == [ev |-> ev, arq |-> arq, linhas |-> 0, docs |-> 0]
LogMetricas(arq, n, m)   == [ev |-> "metricas", arq |-> arq, linhas |-> n, docs |-> m]

EmptyDb == [c \in {} |-> <<>>]

\* a source database: the table each definition's query returns
Source(customers, empty) ==
    [d \in Defs |-> IF d = "customers" THEN customers ELSE empty]

\* the databases the scheduled runs are followed on
SchedSources == {Source(<<Row1, Row2>>, <<>>), Source(<<Row1>>, <<Row3>>)}

\* state of the process before the module-level code runs
InitProcess ==
    /\ pc = "main"
    /\ target_time = 0
    /\ delay = 0
    /\ intervalo_segundos = 0
    /\ sleep_arg = 0
    /\ runs = 0
    /\ ppc = "idle"
    /\ conexao_oracle = "unset"
    /\ mongo_client = "unset"
    /\ oracle_conns = 0
    /\ mongo_conns = 0
    /\ cursors = 0
    /\ arquivos_sql = <<>>
    /\ idx = 0
    /\ consulta_sql = ""
    /\ retorno = None
    /\ excecao = ""
    /\ dados_oracle = None
    /\ dados_oracle_convertidos = <<>>
    /\ nomes_colunas = <<>>
    /\ documentos_mongo = <<>>
    /\ mongo_db = EmptyDb
    /\ log = <<>>
    /\ mongo_inicio = EmptyDb
    /\ execucoes = [d \in Defs |-> 0]
    /\ insercoes = [d \in Defs |-> [ok |-> 0, erro |-> 0]]

\* the whole program: any mode, any --tempo; the starting time is varied
\* where the code reads it (datetime.now() in modo_diario)
Init ==
    /\ args \in [modo : Modos, tempo : Tempos]
    /\ clock \in (IF args.modo = "diario" THEN Nows ELSE {9000})
    /\ source \in SchedSources
    /\ InitProcess

\* one manual run over every source database
InitManual ==
    /\ args \in [modo : {"manual"}, tempo : {TempoNone, Tempo(<<"0", "2", ":", "3", "0">>)}]
    /\ clock = 0
    /\ source \in [Defs -> Tables]
    /\ InitProcess

\* ------------------------------------------------------ scheduler wrappers
\* entry of processa_arquivos_sql (lines 65-67): fresh locals, first log line
CallPipeline(linha) ==
    /\ runs < MaxRuns
    /\ runs' = runs + 1
    /\ ppc' = "connect_oracle"
    /\ conexao_oracle' = "unset"
    /\ mongo_client' = "unset"
    /\ arquivos_sql' = <<>>
    /\ idx' = 0
    /\ consulta_sql' = ""
    /\ retorno' = None
    /\ excecao' = ""
    /\ dados_oracle' = None
    /\ dados_oracle_convertidos' = <<>>
    /\ nomes_colunas' = <<>>
    /\ documentos_mongo' = <<>>
    /\ log' = <<LogLine(linha), LogLine("inicio")>>
    /\ mongo_inicio' = mongo_db
    /\ execucoes' = [d \in Defs |-> 0]
    /\ UNCHANGED <<oracle_conns, mongo_conns, cursors, source, mongo_db, insercoes>>

\* time.sleep(s): returns after at least s seconds
Sleep(s) ==
    /\ sleep_arg' = s
    /\ \E late \in 0..MaxOvershoot : clock' = clock + s + late

\* line 214 asking for --tempo as lines 216 and 218 do
Dispatch_ManualNeedsTempo ==
    /\ pc = "main"
    /\ IF args.modo = "manual" /\ Truthy(args.tempo)
       THEN pc' = "modo_manual" /\ log' = log
       ELSE IF args.modo = "diario" /\ Truthy(args.tempo)
            THEN pc' = "modo_diario" /\ log' = log
       ELSE IF args.modo = "por_intervalo" /\ Truthy(args.tempo)
            THEN pc' = "modo_por_intervalo" /\ log' = log
       ELSE pc' = "exit" /\ log' = Append(log, LogLine("argumentos_invalidos"))
    /\ UNCHANGED <<args, clock, target_time, delay, intervalo_segundos, sleep_arg,
                   runs, ppc, conns, locals, source, mongo_db, mongo_inicio, insercoes, execucoes>>

\* if / elif / else at module level
Dispatch ==
    /\ pc = "main"
    /\ IF args.modo = "manual" THEN pc' = "modo_manual" /\ log' = log
       ELSE IF args.modo = "diario" /\ Truthy(args.tempo)
            THEN pc' = "modo_diario" /\ log' = log
       ELSE IF args.modo = "por_intervalo" /\ Truthy(args.tempo)
            THEN pc' = "modo_por_intervalo" /\ log' = log
       ELSE pc' = "exit" /\ log' = Append(log, LogLine("argumentos_invalidos"))
    /\ UNCHANGED <<args, clock, target_time, delay, intervalo_segundos, sleep_arg,
                   runs, ppc, conns, locals, source, mongo_db, mongo_inicio, insercoes, execucoes>>

ModoManualInicia ==
    /\ pc = "modo_manual"
    /\ pc' = "manual_run"
    /\ CallPipeline("modo_manual_iniciado")
    /\ UNCHANGED <<args, clock, target_time, delay, intervalo_segundos, sleep_arg>>

ModoManualFinaliza ==
    /\ pc = "manual_run" /\ ppc = "returned"
    /\ pc' = "exit"
    /\ ppc' = "idle"
    /\ log' = Append(log, LogLine("modo_manual_finalizado"))
    /\ UNCHANGED <<args, clock, target_time, delay, intervalo_segundos, sleep_arg,
                   runs, conns, locals, source, mongo_db, mongo_inicio, insercoes, execucoes>>

\* hora.split(":")[0], [1] through int(), then now.replace(hour, minute)
DiarioHoraValida(hora) ==
    LET p == Split(hora)
    IN  /\ Len(p) >= 2
        /\ IntOk(p[1]) /\ IntOk(p[2])
        /\ IntOf(p[1]) \in 0..23
        /\ IntOf(p[2]) \in 0..59

\* now.replace(hour=..., minute=..., second=0, microsecond=0)
Replace(now, hora) ==
    LET p == Split(hora)
    IN  (now \div SegundosDia) * SegundosDia
        + IntOf(p[1]) * SegundosHora + IntOf(p[2]) * SegundosMinuto

\* line 169 with >= in place of >
TargetTime_Ge(now, hora) ==
    IF now >= Replace(now, hora) THEN Replace(now, hora) + SegundosDia
    ELSE Replace(now, hora)

TargetTime(now, hora) ==
    IF now > Replace(now, hora) THEN Replace(now, hora) + SegundosDia
    ELSE Replace(now, hora)

\* modo_diario, lines 162-174
ModoDiarioAgenda ==
    /\ pc = "modo_diario"
    /\ IF DiarioHoraValida(args.tempo.text)
       THEN /\ target_time' = TargetTime(clock, args.tempo.text)
            /\ delay' = TargetTime(clock, args.tempo.text) - clock
            /\ log' = Append(log, LogLine("diario_agendado"))
            /\ pc' = "diario_sleep"
       ELSE /\ pc' = "crashed"
            /\ UNCHANGED <<target_time, delay, log>>
    /\ UNCHANGED <<args, clock, intervalo_segundos, sleep_arg, runs, ppc, conns,
                   locals, source, mongo_db, mongo_inicio, insercoes, execucoes>>

\* line 175
ModoDiarioEspera ==
    /\ pc = "diario_sleep"
    /\ Sleep(delay)
    /\ pc' = "diario_loop"
    /\ UNCHANGED <<args, target_time, delay, intervalo_segundos, runs, ppc, conns,
                   locals, source, mongo_db, log, mongo_inicio, insercoes, execucoes>>

\* lines 176-178
ModoDiarioInicia ==
    /\ pc = "diario_loop"
    /\ pc' = "diario_run"
    /\ CallPipeline("modo_diario_iniciado")
    /\ UNCHANGED <<args, clock, target_time, delay, intervalo_segundos, sleep_arg>>

\* lines 179-180
ModoDiarioDorme ==
    /\ pc = "diario_run" /\ ppc = "returned"
    /\ log' = Append(log, LogLine("modo_diario_finalizado"))
    /\ Sleep(24 * SegundosHora)
    /\ pc' = "diario_loop"
    /\ ppc' = "idle"
    /\ UNCHANGED <<args, target_time, delay, intervalo_segundos, runs, conns,
                   locals, source, mongo_db, mongo_inicio, insercoes, execucoes>>

\* horas, minutos = map(int, intervalo.split(":"))
IntervaloValido(intervalo) ==
    LET p == Split(intervalo)
    IN  Len(p) = 2 /\ IntOk(p[1]) /\ IntOk(p[2])

\* line 185 without the factor 60 on the minutes
IntervaloSegundos_NoFactor(intervalo) ==
    LET p == Split(intervalo)
    IN  IntOf(p[1]) * SegundosHora + IntOf(p[2])

IntervaloSegundos(intervalo) ==
    LET p == Split(intervalo)
    IN  IntOf(p[1]) * SegundosHora + IntOf(p[2]) * SegundosMinuto

\* modo_por_intervalo, lines 184-186
ModoIntervaloAgenda ==
    /\ pc = "modo_por_intervalo"
    /\ IF IntervaloValido(args.tempo.text)
       THEN /\ intervalo_segundos' = IntervaloSegundos(args.tempo.text)
            /\ log' = Append(log, LogLine("intervalo_agendado"))
            /\ pc' = "intervalo_loop"
       ELSE /\ pc' = "crashed"
            /\ UNCHANGED <<intervalo_segundos, log>>
    /\ UNCHANGED <<args, clock, target_time, delay, sleep_arg, runs, ppc, conns,
                   locals, source, mongo_db, mongo_inicio, insercoes, execucoes>>

\* lines 187-189
ModoIntervaloInicia ==
    /\ pc = "intervalo_loop"
    /\ pc' = "intervalo_run"
    /\ CallPipeline("modo_intervalo_iniciado")
    /\ UNCHANGED <<args, clock, target_time, delay, intervalo_segundos, sleep_arg>>

\* lines 190-194
ModoIntervaloDorme ==
    /\ pc = "intervalo_run" /\ ppc = "returned"
    /\ log' = log \o <<LogLine("modo_intervalo_finalizado"), LogLine("proximo")>>
    /\ Sleep(intervalo_segundos)
    /\ pc' = "intervalo_loop"
    /\ ppc' = "idle"
    /\ UNCHANGED <<args, target_time, delay, intervalo_segundos, runs, conns,
                   locals, source, mongo_db, mongo_inicio, insercoes, execucoes>>

\* an exception that leaves processa_arquivos_sql is caught by no wrapper:
\* the interpreter prints the traceback and the process ends
Uncaught ==
    /\ pc \in {"manual_run", "diario_run", "intervalo_run"}
    /\ ppc = "raised"
    /\ pc' = "crashed"
    /\ UNCHANGED <<args, clock, target_time, delay, intervalo_segundos, sleep_arg,
                   runs, ppc, conns, locals, source, mongo_db, log, mongo_inicio, insercoes,
                   execucoes>>


\* ---------------------------------------------------- processa_arquivos_sql
nome_arquivo == arquivos_sql[idx]

\* what Path(diretorio_sql).glob("*.sql") may list: the definition files
\* present, in an order the file system chooses
Listings ==
    {q \in SeqsUpTo(Defs, Cardinality(Defs)) :
        \A i, j \in 1..Len(q) : i # j => q[i] # q[j]}

\* {nomes_colunas[i]: valor for i, valor in enumerate(linha)}: a later
\* position with the same name replaces the earlier one
Documento(nomes, linha) ==
    [k \in {nomes[i] : i \in 1..Len(linha)} |->
        linha[CHOOSE i \in 1..Len(linha) :
                  nomes[i] = k /\ \A j \in (i + 1)..Len(linha) : nomes[j] # k]]

\* nomes_colunas[i] raises IndexError for some position of some row
DocumentoFalha(nomes, dados) ==
    \E l \in 1..Len(dados) : Len(dados[l]) > Len(nomes)

Documentos(nomes, dados) ==
    [l \in 1..Len(dados) |-> Documento(nomes, dados[l])]

\* documents of a collection; a collection never written does not exist
Colecao(db, nome) == IF nome \in DOMAIN db THEN db[nome] ELSE <<>>

\* insert_many that wrote the first n documents of docs
\* insert_many that replaces what the collection held
InsertMany_Replace(db, nome, docs, n) ==
    IF n = 0 THEN db
    ELSE [c \in (DOMAIN db) \cup {nome} |->
             IF c = nome THEN SubSeq(docs, 1, n) ELSE db[c]]

InsertMany(db, nome, docs, n) ==
    IF n = 0 THEN db
    ELSE [c \in (DOMAIN db) \cup {nome} |->
             IF c = nome THEN Colecao(db, nome) \o SubSeq(docs, 1, n) ELSE db[c]]

\* lines 70-82
ConnectOracle ==
    /\ ppc = "connect_oracle"
    /\ \/ /\ conexao_oracle' = "open"
          /\ oracle_conns' = oracle_conns + 1
          /\ log' = Append(log, LogLine("oracle_ok"))
          /\ ppc' = "connect_mongo"
       \/ /\ log' = Append(log, LogLine("oracle_erro"))
          /\ ppc' = "returned"
          /\ UNCHANGED <<conexao_oracle, oracle_conns>>
    /\ UNCHANGED <<sched, mongo_client, mongo_conns, cursors, locals, source,
                   mongo_db, mongo_inicio, insercoes, execucoes>>

\* ConnectMongo without the return of line 95
ConnectMongo_NoReturn ==
    /\ ppc = "connect_mongo"
    /\ \/ /\ mongo_client' = "open"
          /\ mongo_conns' = mongo_conns + 1
          /\ log' = Append(log, LogLine("mongo_ok"))
       \/ /\ UNCHANGED <<mongo_client, mongo_conns>>
          /\ log' = Append(log, LogLine("mongo_erro"))
    /\ ppc' = "glob"
    /\ UNCHANGED <<sched, conexao_oracle, oracle_conns, cursors, locals, source,
                   mongo_db, mongo_inicio, insercoes, execucoes>>

\* lines 84-95; the try block can fail before the client exists
\* (int(os.getenv("MONGO_PORT"))) or after it (mongo_client[...])
ConnectMongo ==
    /\ ppc = "connect_mongo"
    /\ \/ /\ mongo_client' = "open"
          /\ mongo_conns' = mongo_conns + 1
          /\ log' = Append(log, LogLine("mongo_ok"))
          /\ ppc' = "glob"
       \/ /\ \/ UNCHANGED <<mongo_client, mongo_conns>>
             \/ mongo_client' = "open" /\ mongo_conns' = mongo_conns + 1
          /\ log' = Append(log, LogLine("mongo_erro"))
          /\ ppc' = "returned"
    /\ UNCHANGED <<sched, conexao_oracle, oracle_conns, cursors, locals, source,
                   mongo_db, mongo_inicio, insercoes, execucoes>>

\* line 97
Glob ==
    /\ ppc = "glob"
    /\ arquivos_sql' \in Listings
    /\ idx' = 0
    /\ ppc' = "for"
    /\ UNCHANGED <<sched, conns, consulta_sql, retorno, excecao, dados_oracle,
                   dados_oracle_convertidos, nomes_colunas, documentos_mongo,
                   source, mongo_db, log, mongo_inicio, insercoes, execucoes>>

\* lines 99-101: next definition, or leave the loop
For ==
    /\ ppc = "for"
    /\ IF idx < Len(arquivos_sql)
       THEN idx' = idx + 1 /\ ppc' = "read"
       ELSE idx' = idx /\ ppc' = "fim"
    /\ UNCHANGED <<sched, conns, arquivos_sql, consulta_sql, retorno, excecao, dados_oracle,
                   dados_oracle_convertidos, nomes_colunas, documentos_mongo,
                   source, mongo_db, log, mongo_inicio, insercoes, execucoes>>

\* lines 103-109; the query text of a definition is identified by its name
ReadFile ==
    /\ ppc = "read"
    /\ \/ /\ consulta_sql' = nome_arquivo
          /\ log' = Append(log, LogArq("lido", nome_arquivo))
          /\ ppc' = "q_cursor"
       \/ /\ log' = Append(log, LogArq("erro_leitura", nome_arquivo))
          /\ ppc' = "for"
          /\ UNCHANGED consulta_sql
    /\ UNCHANGED <<sched, conns, arquivos_sql, idx, retorno, excecao, dados_oracle,
                   dados_oracle_convertidos, nomes_colunas, documentos_mongo,
                   source, mongo_db, mongo_inicio, insercoes, execucoes>>

\* executa_consulta_leitura, line 54
QueryCursor ==
    /\ ppc = "q_cursor"
    /\ cursors' = cursors + 1
    /\ ppc' = "q_execute"
    /\ UNCHANGED <<sched, conexao_oracle, mongo_client, oracle_conns, mongo_conns,
                   locals, source, mongo_db, log, mongo_inicio, insercoes, execucoes>>

\* QueryExecute without the except clause of lines 58-60
QueryExecute_NoExcept ==
    /\ ppc = "q_execute"
    /\ execucoes' = [execucoes EXCEPT ![consulta_sql] = @ + 1]
    /\ \/ /\ retorno' = Rows(source[consulta_sql])
          /\ ppc' = "q_finally"
          /\ excecao' = excecao
       \/ /\ retorno' = None
          /\ ppc' = "raised"
          /\ excecao' = "execute"
    /\ UNCHANGED <<sched, conns, arquivos_sql, idx, consulta_sql, log,
                   dados_oracle, dados_oracle_convertidos, nomes_colunas,
                   documentos_mongo, source, mongo_db, mongo_inicio, insercoes>>

\* executa_consulta_leitura, lines 55-60
QueryExecute ==
    /\ ppc = "q_execute"
    /\ execucoes' = [execucoes EXCEPT ![consulta_sql] = @ + 1]
    /\ \/ /\ retorno' = Rows(source[consulta_sql])
          /\ log' = log
       \/ /\ retorno' = None
          /\ log' = Append(log, LogArq("erro_consulta", consulta_sql))
    /\ ppc' = "q_finally"
    /\ UNCHANGED <<sched, conns, arquivos_sql, idx, consulta_sql, excecao,
                   dados_oracle, dados_oracle_convertidos, nomes_colunas,
                   documentos_mongo, source, mongo_db, mongo_inicio, insercoes>>

\* executa_consulta_leitura, lines 61-62, and the assignment of line 111
QueryFinally ==
    /\ ppc = "q_finally"
    /\ cursors' = cursors - 1
    /\ dados_oracle' = retorno
    /\ ppc' = "check"
    /\ UNCHANGED <<sched, conexao_oracle, mongo_client, oracle_conns, mongo_conns,
                   arquivos_sql, idx, consulta_sql, retorno, excecao,
                   dados_oracle_convertidos, nomes_colunas, documentos_mongo,
                   source, mongo_db, log, mongo_inicio, insercoes, execucoes>>

\* CheckResult testing only "is None" in line 112
CheckResult_OnlyNone ==
    /\ ppc = "check"
    /\ IF dados_oracle.none
       THEN /\ log' = Append(log, LogArq("nenhum_dado", nome_arquivo))
            /\ ppc' = "for"
       ELSE /\ log' = log
            /\ ppc' = "convert"
    /\ UNCHANGED <<sched, conns, locals, source, mongo_db, mongo_inicio, insercoes, execucoes>>

\* lines 112-116
CheckResult ==
    /\ ppc = "check"
    /\ IF dados_oracle.none \/ Len(dados_oracle.rows) = 0
       THEN /\ log' = Append(log, LogArq("nenhum_dado", nome_arquivo))
            /\ ppc' = "for"
       ELSE /\ log' = log
            /\ ppc' = "convert"
    /\ UNCHANGED <<sched, conns, locals, source, mongo_db, mongo_inicio, insercoes, execucoes>>

\* Convert inside a try whose handler skips the definition
Convert_Caught ==
    /\ ppc = "convert"
    /\ IF ConverteFalha(dados_oracle.rows)
       THEN /\ ppc' = "for"
            /\ UNCHANGED dados_oracle_convertidos
       ELSE /\ \E pads \in BOOLEAN :
                 dados_oracle_convertidos' =
                     converte_lob_para_string_bytes(dados_oracle.rows, pads)
            /\ ppc' = "meta"
    /\ UNCHANGED <<sched, conns, arquivos_sql, idx, consulta_sql, retorno, excecao,
                   dados_oracle, nomes_colunas, documentos_mongo,
                   source, mongo_db, log, mongo_inicio, insercoes, execucoes>>

\* line 118; an exception of valor.read() is caught nowhere
Convert ==
    /\ ppc = "convert"
    /\ IF ConverteFalha(dados_oracle.rows)
       THEN /\ ppc' = "raised"
            /\ excecao' = "lob_read"
            /\ UNCHANGED dados_oracle_convertidos
       ELSE /\ excecao' = excecao
            /\ \E pads \in BOOLEAN :
                 dados_oracle_convertidos' =
                     converte_lob_para_string_bytes(dados_oracle.rows, pads)
            /\ ppc' = "meta"
    /\ UNCHANGED <<sched, conns, arquivos_sql, idx, consulta_sql, retorno,
                   dados_oracle, nomes_colunas, documentos_mongo,
                   source, mongo_db, log, mongo_inicio, insercoes, execucoes>>

\* lines 119-122: the second execution, outside any try; when execute
\* raises, the cursor is left open
MetaExecute ==
    /\ ppc = "meta"
    /\ execucoes' = [execucoes EXCEPT ![consulta_sql] = @ + 1]
    /\ \/ /\ nomes_colunas' \in Descriptions
          /\ cursors' = cursors
          /\ excecao' = excecao
          /\ ppc' = "build"
       \/ /\ cursors' = cursors + 1
          /\ ppc' = "raised"
          /\ excecao' = "execute"
          /\ UNCHANGED nomes_colunas
    /\ UNCHANGED <<sched, conexao_oracle, mongo_client, oracle_conns, mongo_conns,
                   arquivos_sql, idx, consulta_sql, retorno, dados_oracle,
                   dados_oracle_convertidos, documentos_mongo,
                   source, mongo_db, log, mongo_inicio, insercoes>>

\* lines 124-128
BuildRecords ==
    /\ ppc = "build"
    /\ IF DocumentoFalha(nomes_colunas, dados_oracle_convertidos)
       THEN /\ ppc' = "raised"
            /\ excecao' = "index"
            /\ UNCHANGED documentos_mongo
       ELSE /\ documentos_mongo' = Documentos(nomes_colunas, dados_oracle_convertidos)
            /\ excecao' = excecao
            /\ ppc' = "insert"
    /\ UNCHANGED <<sched, conns, arquivos_sql, idx, consulta_sql, retorno,
                   dados_oracle, dados_oracle_convertidos, nomes_colunas,
                   source, mongo_db, log, mongo_inicio, insercoes, execucoes>>

\* lines 130-138; a failing insert_many may have written a prefix
Insert ==
    /\ ppc = "insert"
    /\ \/ /\ mongo_db' = InsertMany(mongo_db, nome_arquivo, documentos_mongo,
                                    Len(documentos_mongo))
          /\ log' = Append(log, LogArq("inserido", nome_arquivo))
          /\ insercoes' = [insercoes EXCEPT ![nome_arquivo].ok = @ + 1]
       \/ /\ \E n \in 0..(Len(documentos_mongo) - 1) :
                 mongo_db' = InsertMany(mongo_db, nome_arquivo, documentos_mongo, n)
          /\ log' = Append(log, LogArq("erro_insercao", nome_arquivo))
          /\ insercoes' = [insercoes EXCEPT ![nome_arquivo].erro = @ + 1]
    /\ ppc' = "metrics"
    /\ UNCHANGED <<sched, conns, locals, source, mongo_inicio, execucoes>>

\* lines 140-144
Metrics ==
    /\ ppc = "metrics"
    /\ log' = Append(log, LogMetricas(nome_arquivo, Len(dados_oracle.rows),
                                      Len(documentos_mongo)))
    /\ ppc' = "for"
    /\ UNCHANGED <<sched, conns, locals, source, mongo_db, mongo_inicio, insercoes, execucoes>>

\* lines 146-152
Fim ==
    /\ ppc = "fim"
    /\ log' = Append(log, LogLine("total"))
    /\ conexao_oracle' = "closed"
    /\ oracle_conns' = oracle_conns - 1
    /\ mongo_client' = "closed"
    /\ mongo_conns' = mongo_conns - 1
    /\ ppc' = "returned"
    /\ UNCHANGED <<sched, cursors, locals, source, mongo_db, mongo_inicio, insercoes, execucoes>>

\* ----------------------------------------------------------- specification
Next ==
    \/ Dispatch
    \/ ModoManualInicia
    \/ ModoManualFinaliza
    \/ ModoDiarioAgenda
    \/ ModoDiarioEspera
    \/ ModoDiarioInicia
    \/ ModoDiarioDorme
    \/ ModoIntervaloAgenda
    \/ ModoIntervaloInicia
    \/ ModoIntervaloDorme
    \/ Uncaught
    \/ ConnectOracle
    \/ ConnectMongo
    \/ Glob
    \/ For
    \/ ReadFile
    \/ QueryCursor
    \/ QueryExecute
    \/ QueryFinally
    \/ CheckResult
    \/ Convert
    \/ MetaExecute
    \/ BuildRecords
    \/ Insert
    \/ Metrics
    \/ Fim

Spec == Init /\ [][Next]_vars

\* the actions of a process started with --modo manual
NextManual ==
    \/ Dispatch
    \/ ModoManualInicia
    \/ ModoManualFinaliza
    \/ Uncaught
    \/ ConnectOracle
    \/ ConnectMongo
    \/ Glob
    \/ For
    \/ ReadFile
    \/ QueryCursor
    \/ QueryExecute
    \/ QueryFinally
    \/ CheckResult
    \/ Convert
    \/ MetaExecute
    \/ BuildRecords
    \/ Insert
    \/ Metrics
    \/ Fim

SpecManual == InitManual /\ [][NextManual]_vars


\* ------------------------------------------------------------------ claims
Last(q) == q[Len(q)]

Logged(ev) == \E i \in 1..Len(log) : log[i].ev = ev

LoggedArq(ev, arq) == \E i \in 1..Len(log) : log[i].ev = ev /\ log[i].arq = arq

\* the collection of a definition is as it was when the current call started
Intocada(nome) ==
    /\ Colecao(mongo_db, nome) = Colecao(mongo_inicio, nome)
    /\ nome \in DOMAIN mongo_db <=> nome \in DOMAIN mongo_inicio

ConnFailed == Logged("oracle_erro") \/ Logged("mongo_erro")

\* C1: when the source connection or the destination client cannot be
\* established, the call ends before any definition is processed: the
\* directory is not listed, no file is read, no query is executed and the
\* destination is as it was when the call started.
C1_AbortsBeforeDefinitions ==
    ConnFailed =>
        /\ ppc \in {"returned", "idle"}
        /\ arquivos_sql = <<>> /\ idx = 0
        /\ \A d \in Defs : execucoes[d] = 0
        /\ mongo_db = mongo_inicio
        /\ \A i \in 1..Len(log) : log[i].arq = ""

\* a call that opened the source connection and then failed on the
\* destination client, over a source that has rows to migrate
C1_Witness ==
    /\ Logged("mongo_erro") /\ ppc = "returned"
    /\ conexao_oracle = "open"
    /\ \E d \in Defs : source[d] # <<>>

\* C2: when processa_arquivos_sql has stopped, by a return or by an
\* exception, no connection the call opened is still open.
C2_ConnectionsClosedAtEnd ==
    ppc \in {"returned", "raised"} =>
        conexao_oracle # "open" /\ mongo_client # "open"

\* C3: the only exception that leaves the per-definition loop is a
\* conversion failure; every other failure is turned into a skip.
C3_OnlyConversionEscapes ==
    ppc = "raised" => excecao = "lob_read"

\* C5: a definition whose query failed or returned no row leaves its
\* collection as it was (not created, not written), its query is executed
\* exactly once in the call, and the step that sees the missing result goes
\* back to the loop head without touching the destination.
C5_NoDataSkips ==
    /\ [](\A i \in 1..Len(log) :
            log[i].ev = "nenhum_dado" =>
                Intocada(log[i].arq) /\ execucoes[log[i].arq] = 1)
    /\ [][(ppc = "check" /\ (dados_oracle.none \/ dados_oracle.rows = <<>>)) =>
            /\ ppc' = "for"
            /\ mongo_db' = mongo_db
            /\ execucoes' = execucoes
            /\ log' = Append(log, LogArq("nenhum_dado", nome_arquivo))]_vars

\* a definition with an empty result was skipped and the next definition
\* of the same call was inserted
C5_Witness ==
    \E i, j \in 1..Len(log) :
        /\ i < j
        /\ log[i].ev = "nenhum_dado" /\ source[log[i].arq] = <<>>
        /\ execucoes[log[i].arq] = 1
        /\ log[j].ev = "inserido"

\* C6: executa_consulta_leitura always comes back to its caller: a failing
\* execute or fetchall is logged with the query and None is returned, and
\* the cursor opened by the call is closed before the caller continues.
C6_QueryRunnerAbsorbsFailure ==
    /\ [](ppc = "check" => cursors = 0)
    /\ [](ppc = "q_finally" =>
            (retorno.none <=> Last(log) = LogArq("erro_consulta", consulta_sql)))
    /\ [][ppc = "q_execute" => ppc' = "q_finally" /\ cursors' = cursors]_vars
    /\ [][ppc = "q_finally" =>
            ppc' = "check" /\ cursors' = cursors - 1 /\ dados_oracle' = retorno]_vars

\* the caller continues after a failed execution, with None and no cursor
C6_Witness ==
    /\ ppc = "check" /\ dados_oracle.none /\ cursors = 0
    /\ Last(log) = LogArq("erro_consulta", nome_arquivo)

\* C8: a conversion failure leaves processa_arquivos_sql as an exception:
\* the definition's collection is as it was when the call started, no
\* later definition of the listing is read, executed or written, the call
\* never resumes, and the destination keeps what was written before.
C8_ConversionFailureAborts ==
    /\ [][(ppc = "convert" /\ ConverteFalha(dados_oracle.rows)) =>
            ppc' = "raised" /\ excecao' = "lob_read" /\ mongo_db' = mongo_db]_vars
    /\ []((ppc = "raised" /\ excecao = "lob_read") =>
            /\ Intocada(nome_arquivo)
            /\ \A j \in (idx + 1)..Len(arquivos_sql) :
                   /\ Intocada(arquivos_sql[j])
                   /\ execucoes[arquivos_sql[j]] = 0
                   /\ \A i \in 1..Len(log) : log[i].arq # arquivos_sql[j])
    /\ [][ppc = "raised" => ppc' = "raised" /\ idx' = idx /\ mongo_db' = mongo_db]_vars

\* the first of two listed definitions failed to convert
C8_Witness ==
    /\ ppc = "raised" /\ excecao = "lob_read"
    /\ idx = 1 /\ Len(arquivos_sql) = 2


\* C4: once the Records of a definition are built there is one Record per
\* Row of the non-empty result, each made of values of its own converted
\* row, and a successful insert_many grows the definition's collection by
\* exactly the number of Rows.
C4_OneRecordPerRow ==
    /\ ppc \in {"insert", "metrics"} =>
        /\ Len(dados_oracle.rows) > 0
        /\ Len(documentos_mongo) = Len(dados_oracle.rows)
        /\ \A l \in 1..Len(documentos_mongo) :
               \A k \in DOMAIN documentos_mongo[l] :
                   \E i \in 1..Len(dados_oracle_convertidos[l]) :
                       documentos_mongo[l][k] = dados_oracle_convertidos[l][i]
    /\ (ppc = "metrics" /\ Last(log).ev = "inserido") =>
        Len(Colecao(mongo_db, nome_arquivo))
            = Len(Colecao(mongo_inicio, nome_arquivo)) + Len(dados_oracle.rows)

\* two different rows were converted, zipped and inserted
C4_Witness ==
    /\ ppc = "metrics" /\ Last(log).ev = "inserido"
    /\ Len(dados_oracle.rows) = 2
    /\ dados_oracle.rows[1] # dados_oracle.rows[2]
    /\ Len(Colecao(mongo_db, nome_arquivo)) = 2

\* text is the DD-MM-YYYY HH:MM:SS rendering of dt
IsDateTimeText(text, dt) ==
    /\ Len(text) = 19
    /\ text[3] = "-" /\ text[6] = "-" /\ text[11] = " "
    /\ text[14] = ":" /\ text[17] = ":"
    /\ \A i \in (1..19) \ {3, 6, 11, 14, 17} : IsDigit(text[i])
    /\ IntOf(SubSeq(text, 1, 2)) = dt[1]
    /\ IntOf(SubSeq(text, 4, 5)) = dt[2]
    /\ IntOf(SubSeq(text, 7, 10)) = dt[3]
    /\ IntOf(SubSeq(text, 12, 13)) = dt[4]
    /\ IntOf(SubSeq(text, 15, 16)) = dt[5]
    /\ IntOf(SubSeq(text, 18, 19)) = dt[6]

\* C7: the converted data has the shape of the data (as many rows, as many
\* values per row); position by position a large-object handle became its
\* content, a temporal value its DD-MM-YYYY HH:MM:SS text, anything else
\* is the same value; and no Record holds a handle or a temporal object.
C7_PositionalConversion ==
    ppc \in {"meta", "build", "insert", "metrics"} =>
        /\ Len(dados_oracle_convertidos) = Len(dados_oracle.rows)
        /\ \A l \in 1..Len(dados_oracle.rows) :
            /\ Len(dados_oracle_convertidos[l]) = Len(dados_oracle.rows[l])
            /\ \A i \in 1..Len(dados_oracle.rows[l]) :
                LET valor == dados_oracle.rows[l][i]
                    novo  == dados_oracle_convertidos[l][i]
                IN  IF valor.kind = "lob" THEN novo = Prim(valor.txt)
                    ELSE IF valor.kind = "datetime"
                         THEN novo.kind = "prim" /\ IsDateTimeText(novo.txt, valor.dt)
                    ELSE novo = valor
        /\ \A l \in 1..Len(documentos_mongo) :
               \A k \in DOMAIN documentos_mongo[l] :
                   documentos_mongo[l][k].kind = "prim"

\* the --tempo texts that are a time of day, and that time in seconds
C9_TimeOfDay ==
    IF args.tempo.text = <<"0", "2", ":", "3", "0">> THEN 9000 ELSE 0

\* C9: modo_diario schedules the first run at the next occurrence of the
\* given time of day: the same day when the current time is not after it,
\* the following day otherwise; the delay is between 0 and 24 hours; and
\* processa_arquivos_sql is not called before the target moment.
C9_DailyFirstRun ==
    /\ pc = "diario_sleep" =>
        /\ target_time % SegundosDia = C9_TimeOfDay
        /\ target_time = clock + delay
        /\ delay >= 0 /\ delay <= SegundosDia
        /\ IF clock % SegundosDia > C9_TimeOfDay
           THEN target_time \div SegundosDia = (clock \div SegundosDia) + 1
           ELSE target_time \div SegundosDia = clock \div SegundosDia
    /\ (args.modo = "diario" /\ runs >= 1) => clock >= target_time

\* the first daily run, scheduled for the following day, has started
C9_Witness ==
    /\ pc = "diario_run" /\ runs = 1
    /\ target_time \div SegundosDia = 1
    /\ clock >= target_time

\* the --tempo texts that are a duration, and that duration in seconds
C10_Seconds ==
    IF args.tempo.text = <<"0", "2", ":", "3", "0">> THEN 9000
    ELSE IF args.tempo.text = <<"2", "5", ":", "0", "0">> THEN 90000
    ELSE 0

\* C10: modo_por_intervalo turns H:M into H*3600 + M*60 seconds (9000 for
\* "02:30"), and every return of processa_arquivos_sql is followed by a
\* time.sleep of exactly that many seconds before the next call.
C10_IntervalSeconds ==
    /\ [](pc \in {"intervalo_loop", "intervalo_run"} =>
            intervalo_segundos = C10_Seconds)
    /\ [][(pc = "intervalo_run" /\ pc' \notin {"intervalo_run", "crashed"}) =>
            /\ pc' = "intervalo_loop"
            /\ sleep_arg' = C10_Seconds
            /\ clock' >= clock + C10_Seconds]_vars
    /\ [][(pc = "intervalo_loop" /\ pc' = "intervalo_run" /\ runs >= 1) =>
            sleep_arg = C10_Seconds]_vars

\* the second call at an interval of "02:30", after a sleep of 9000 seconds
C10_Witness ==
    /\ pc = "intervalo_run" /\ runs = 2
    /\ args.tempo.text = <<"0", "2", ":", "3", "0">>
    /\ intervalo_segundos = 9000 /\ sleep_arg = 9000


\* C11: with --modo manual, with or without --tempo, processa_arquivos_sql
\* is called once and never again, and the process ends after that call;
\* with --modo diario or por_intervalo and no --tempo the error is logged,
\* the process ends and processa_arquivos_sql is never called.
C11_CommandLineDispatch ==
    /\ args.modo = "manual" =>
        /\ runs <= 1
        /\ pc \in {"exit", "crashed"} => runs = 1
        /\ pc = "exit" =>
            ppc = "idle" /\ Last(log) = LogLine("modo_manual_finalizado")
        /\ ~Logged("argumentos_invalidos")
    /\ (args.modo \in {"diario", "por_intervalo"} /\ ~args.tempo.given) =>
        /\ runs = 0 /\ ppc = "idle"
        /\ pc \in {"main", "exit"}
        /\ pc = "exit" => log = <<LogLine("argumentos_invalidos")>>

\* a manual process given no --tempo has made its one call and ended
C11_Witness ==
    /\ args.modo = "manual" /\ ~args.tempo.given
    /\ pc = "exit" /\ runs = 1
    /\ Logged("total")


\* C12: processa_arquivos_sql is never running twice at once: a call starts
\* only from a wrapper whose previous call has returned, in the daily and
\* interval loops only after the sleep of 24 hours, or of the interval,
\* that follows that return, and at no time is more than one source
\* connection or more than one destination client open.
C12_NeverConcurrent ==
    /\ [](oracle_conns <= 1 /\ mongo_conns <= 1)
    /\ [][runs' # runs =>
            /\ runs' = runs + 1
            /\ ppc = "idle"
            /\ pc \in {"modo_manual", "diario_loop", "intervalo_loop"}
            /\ (pc = "diario_loop" /\ runs >= 1) => sleep_arg = 24 * SegundosHora
            /\ (pc = "intervalo_loop" /\ runs >= 1) => sleep_arg = intervalo_segundos]_vars
    /\ [][(pc = "diario_run" /\ pc' = "diario_loop") =>
            ppc = "returned" /\ clock' >= clock + 24 * SegundosHora]_vars
    /\ [][(pc = "intervalo_run" /\ pc' = "intervalo_loop") =>
            ppc = "returned" /\ clock' >= clock + intervalo_segundos]_vars


\* C13: a daily or interval loop that has made its first call of
\* processa_arquivos_sql never ends by itself: whatever fails inside a
\* call, the wrapper is still there to make the next call.
C13_LoopNeverEnds ==
    (args.modo \in {"diario", "por_intervalo"} /\ runs >= 1) =>
        pc \notin {"crashed", "exit"}


\* C14: every Record built for a definition has one entry per value of its
\* converted row: the i-th column name of the second execution is a key
\* and maps to the i-th value, so there are as many keys as values.
C14_OneEntryPerValue ==
    ppc \in {"insert", "metrics"} =>
        \A l \in 1..Len(documentos_mongo) :
            LET linha == dados_oracle_convertidos[l]
                doc   == documentos_mongo[l]
            IN  /\ Cardinality(DOMAIN doc) = Len(linha)
                /\ \A i \in 1..Len(linha) :
                       nomes_colunas[i] \in DOMAIN doc /\ doc[nomes_colunas[i]] = linha[i]


\* C15: a metrics line is logged only for a definition that reached
\* insert_many, never for one skipped at the read or for lack of data, and
\* the number of inserted documents it reports is the number of documents
\* the call added to the definition's collection.
C15_MetricsMatchInserts ==
    \A i \in 1..Len(log) :
        /\ log[i].ev = "metricas" =>
            /\ \E j \in 1..(i - 1) :
                   /\ log[j].arq = log[i].arq
                   /\ log[j].ev \in {"inserido", "erro_insercao"}
            /\ log[i].docs = Len(Colecao(mongo_db, log[i].arq))
                                - Len(Colecao(mongo_inicio, log[i].arq))
        /\ log[i].ev \in {"erro_leitura", "nenhum_dado"} =>
            ~LoggedArq("metricas", log[i].arq)


\* q starts with p
IsPrefix(p, q) == Len(p) <= Len(q) /\ SubSeq(q, 1, Len(p)) = p

\* C16: the destination only grows: no step removes a collection or
\* changes or removes a document it holds, every step appends; so a
\* collection all of whose insert_many calls succeeded, k of them, over a
\* source whose query returns r rows, holds k * r documents.
C16_AppendOnly ==
    /\ [][\A c \in DOMAIN mongo_db :
            c \in DOMAIN mongo_db' /\ IsPrefix(mongo_db[c], mongo_db'[c])]_vars
    /\ [](\A d \in Defs :
            insercoes[d].erro = 0 =>
                Len(Colecao(mongo_db, d)) = insercoes[d].ok * Len(source[d]))

\* the second successful run over a definition of two rows: four documents
C16_Witness ==
    \E d \in Defs :
        /\ Len(source[d]) = 2
        /\ insercoes[d] = [ok |-> 2, erro |-> 0]
        /\ runs = 2
        /\ Len(Colecao(mongo_db, d)) = 4

====
